---- MODULE Spec2Model ----
\* A model of two parts of bio-rd:
\*   - the route table entry  (package rt:     Route, Path, best-path selection)
\*   - the BGP wire decoder   (package packet: Decode and its parsers)
\* The route entry is explored by Spec, the decoder by DecodeSpec.
EXTENDS Integers, Sequences, FiniteSets, TLC

\* ---------------------------------------------------------------- bounds

\* Longest r.paths the model lets a route grow to.
MaxPaths == 3
\* Most Decode calls made on one buffer.
MaxCalls == 2

\* ============================================================= package rt

\* Path Types
StaticPathType == 1
BGPPathType == 2
OSPFPathType == 3
ISISPathType == 4

\* A nil pointer field of Path.
Nil == 0

\* type Path struct { Type uint8; StaticPath *StaticPath; BGPPath *BGPPath }
\* A payload pointer is modelled by the value it points to (a member of
\* Payloads), Nil when the field is unset.  For a BGP path the payload value
\* stands for its LOCAL_PREF.
Path(t, s, b) == [Type |-> t, StaticPath |-> s, BGPPath |-> b]

\* The paths a caller builds: the payload field of the path's own family is
\* set, the other one is nil; OSPF and ISIS paths carry no payload field.
Payloads == {1, 2}

Paths ==
    {Path(StaticPathType, s, Nil) : s \in Payloads}
        \cup {Path(BGPPathType, Nil, b) : b \in Payloads}
        \cup {Path(OSPFPathType, Nil, Nil), Path(ISISPathType, Nil, Nil)}

\* The path lists handed to NewRoute, AddPaths and (as rm.paths) to Remove:
\* empty, one path, two paths.
PathLists ==
    {<<>>} \cup {<<p>> : p \in Paths} \cup {<<p, q>> : p \in Paths, q \in Paths}

\* func (p *Path) Equal(q *Path) bool, for non-nil p and q.
Equal(p, q) ==
    IF p.Type # q.Type
    THEN FALSE
    ELSE IF p.Type = BGPPathType
         THEN ~(p.BGPPath # q.BGPPath)
         ELSE TRUE

\* The index removePath's loop stops at: the first j with paths[j].Equal(remove),
\* 0 when there is none (the code's i = -1).
FirstEqual(ps, remove) ==
    IF \E j \in 1..Len(ps) : Equal(ps[j], remove)
    THEN CHOOSE j \in 1..Len(ps) :
             /\ Equal(ps[j], remove)
             /\ \A k \in 1..(j - 1) : ~Equal(ps[k], remove)
    ELSE 0

\* func removePath(paths []*Path, remove *Path) []*Path
removePath(ps, remove) ==
    LET i == FirstEqual(ps, remove) IN
    IF i = 0
    THEN ps
    ELSE SubSeq(ps, 1, i - 1) \o SubSeq(ps, i + 1, Len(ps))

\* The loop of Route.Remove over rm.paths.
RECURSIVE RemoveAll(_, _)
RemoveAll(ps, dels) ==
    IF dels = <<>>
    THEN ps
    ELSE RemoveAll(removePath(ps, Head(dels)), Tail(dels))

\* func getBestProtocol(paths []*Path) uint8
RECURSIVE BestProtocolFrom(_, _)
BestProtocolFrom(best, ps) ==
    IF ps = <<>>
    THEN best
    ELSE LET t == Head(ps).Type IN
         IF best = 0
         THEN BestProtocolFrom(t, Tail(ps))
         ELSE IF t < best
              THEN BestProtocolFrom(t, Tail(ps))
              ELSE BestProtocolFrom(best, Tail(ps))

\* getBestProtocol with the comparison dropped from its loop: the type of the
\* last path wins.
getBestProtocolLast(ps) == IF ps = <<>> THEN 0 ELSE ps[Len(ps)].Type

getBestProtocol(ps) == BestProtocolFrom(0, ps)

\* func (r *Route) staticPathSelection(): every static path is active.
staticPathSelection(ps) ==
    LET IsStatic(p) == p.Type = StaticPathType IN SelectSeq(ps, IsStatic)

\* func (r *Route) bgpPathSelection(): the BGP paths of highest LOCAL_PREF.
bgpPathSelection(ps) ==
    LET IsBest(p) ==
            /\ p.Type = BGPPathType
            /\ \A k \in 1..Len(ps) :
                   ps[k].Type = BGPPathType => ps[k].BGPPath <= p.BGPPath
    IN  SelectSeq(ps, IsBest)

\* func (r *Route) bestPaths(): the value it stores in r.activePaths.
bestPaths(ps) ==
    LET protocol == getBestProtocol(ps) IN
    IF protocol = StaticPathType
    THEN staticPathSelection(ps)
    ELSE IF protocol = BGPPathType
         THEN bgpPathSelection(ps)
         ELSE <<>>

\* The set of elements of a sequence.
Range(s) == {s[i] : i \in 1..Len(s)}


\* ========================================================= package packet

\* Sizes of the BGP header.
MarkerLen == 16
MinLen == 19
MaxLen == 4096

\* Message types.
OpenMsg == 1
UpdateMsg == 2
NotificationMsg == 3
KeepaliveMsg == 4

BGP4Version == 4

\* Error codes.
MessageHeaderError == 1
OpenMessageError == 2
UpdateMessageError == 3
HoldTimeExpired == 4
FiniteStateMachineError == 5
Cease == 6

\* Message header error subcodes.
ConnectionNotSync == 1
BadMessageLength == 2
BadMessageType == 3

\* Open message error subcodes.
UnsupportedVersionNumber == 1
BadBGPIdentifier == 3
DeprecatedOpenMsgError5 == 5
UnacceptableHoldTime == 6

\* Update message error subcodes.
MalformedAttributeList == 1
DeprecatedUpdateMsgError7 == 7
MalformedASPath == 11

\* ----------------------------------------------------------- error values

\* The nil error.
NoErr == [kind |-> "nil"]

\* A BGPError{ErrorCode, ErrorSubCode, ErrorStr} value.
BGPError(code, subcode) ==
    [kind |-> "BGPError", ErrorCode |-> code, ErrorSubCode |-> subcode]

\* The error fmt.Errorf builds: a string and nothing else.  Formatting another
\* error into it with %v keeps that error's text, not its fields.
Errorf(text) == [kind |-> "errorString", text |-> text]

\* A nil pointer or nil interface result.
NilPtr == [nil |-> TRUE]

\* ------------------------------------------------------------ byte reader

\* The value of a byte run read as one big-endian unsigned integer.
RECURSIVE BigEndian(_)
BigEndian(bs) ==
    IF bs = <<>>
    THEN 0
    ELSE BigEndian(SubSeq(bs, 1, Len(bs) - 1)) * 256 + bs[Len(bs)]

\* A uint32, held as its two 16-bit halves.
Uint32(hi, lo) == [hi |-> hi, lo |-> lo]

\* The zero value of a field of w bytes.
Zero(w) == IF w = 4 THEN Uint32(0, 0) ELSE 0

\* binary.Read(buf, binary.BigEndian, field) for a field of w bytes (a uint8,
\* uint16 or uint32): the value when w bytes are there; otherwise an error,
\* with what was left consumed and the field left at zero.
ReadUint(buf, w) ==
    IF Len(buf) >= w
    THEN [ok |-> TRUE,
          val |-> IF w = 4
                  THEN Uint32(BigEndian(SubSeq(buf, 1, 2)), BigEndian(SubSeq(buf, 3, 4)))
                  ELSE BigEndian(SubSeq(buf, 1, w)),
          rest |-> SubSeq(buf, w + 1, Len(buf))]
    ELSE [ok |-> FALSE, val |-> Zero(w), rest |-> <<>>]

\* func decode(buf *bytes.Buffer, fields []interface{}) error
\* widths are the sizes of the fields still to read, vals the fields read so
\* far (a field that is not reached keeps its zero value); r is what
\* binary.Read made of the next field.
RECURSIVE decodeFrom(_, _, _)
decodeField(r, widths, vals) ==
    IF ~r.ok
    THEN [err |-> Errorf("Unable to read from buffer"),
          vals |-> vals \o [i \in 1..Len(widths) |-> Zero(widths[i])],
          rest |-> r.rest]
    ELSE decodeFrom(r.rest, Tail(widths), Append(vals, r.val))

decodeFrom(buf, widths, vals) ==
    IF widths = <<>>
    THEN [err |-> NoErr, vals |-> vals, rest |-> buf]
    ELSE decodeField(ReadUint(buf, Head(widths)), widths, vals)

decode(buf, widths) == decodeFrom(buf, widths, <<>>)

\* ----------------------------------------------------------- header parser

\* buf.Read(marker) on a bytes.Buffer: io.EOF on an empty buffer, otherwise
\* up to len(marker) bytes.
BufferRead(buf, n) ==
    IF buf = <<>>
    THEN [eof |-> TRUE, n |-> 0, bytes |-> <<>>, rest |-> <<>>]
    ELSE IF Len(buf) < n
    THEN [eof |-> FALSE, n |-> Len(buf), bytes |-> buf, rest |-> <<>>]
    ELSE [eof |-> FALSE, n |-> n, bytes |-> SubSeq(buf, 1, n),
          rest |-> SubSeq(buf, n + 1, Len(buf))]

Header(length, type) == [Length |-> length, Type |-> type]

\* headerChecks with the type checked before the length.
headerChecksTypeFirst(hdr, rest) ==
    IF hdr.Type > KeepaliveMsg \/ hdr.Type = 0
    THEN [hdr |-> hdr, err |-> BGPError(MessageHeaderError, BadMessageType),
          rest |-> rest]
    ELSE IF hdr.Length < MinLen \/ hdr.Length > MaxLen
    THEN [hdr |-> hdr, err |-> BGPError(MessageHeaderError, BadMessageLength),
          rest |-> rest]
    ELSE [hdr |-> hdr, err |-> NoErr, rest |-> rest]

\* decodeHeader once Length and Type are read: the checks on them.
headerChecks(hdr, rest) ==
    IF hdr.Length < MinLen \/ hdr.Length > MaxLen
    THEN [hdr |-> hdr, err |-> BGPError(MessageHeaderError, BadMessageLength),
          rest |-> rest]
    ELSE IF hdr.Type > KeepaliveMsg \/ hdr.Type = 0
    THEN [hdr |-> hdr, err |-> BGPError(MessageHeaderError, BadMessageType),
          rest |-> rest]
    ELSE [hdr |-> hdr, err |-> NoErr, rest |-> rest]

\* headerFields without the test of decode's error.
headerFieldsUnchecked(f) == headerChecks(Header(f.vals[1], f.vals[2]), f.rest)

\* decodeHeader after the marker: f is what decode made of Length and Type.
headerFields(f) ==
    IF f.err # NoErr
    THEN [hdr |-> Header(f.vals[1], f.vals[2]), err |-> BGPError(Cease, 0),
          rest |-> f.rest]
    ELSE headerChecks(Header(f.vals[1], f.vals[2]), f.rest)

\* decodeHeader from its first read on: m is what buf.Read(marker) returned.
headerMarker(m) ==
    IF m.eof
    THEN [hdr |-> Header(0, 0), err |-> BGPError(Cease, 0), rest |-> m.rest]
    ELSE IF m.n # MarkerLen
    THEN [hdr |-> Header(0, 0), err |-> BGPError(Cease, 0), rest |-> m.rest]
    ELSE IF \E i \in 1..MarkerLen : m.bytes[i] # 255
    THEN [hdr |-> NilPtr, err |-> BGPError(MessageHeaderError, ConnectionNotSync),
          rest |-> m.rest]
    ELSE headerFields(decode(m.rest, <<2, 1>>))

\* func decodeHeader(buf *bytes.Buffer) (*BGPHeader, error)
decodeHeader(buf) == headerMarker(BufferRead(buf, MarkerLen))

\* -------------------------------------------------------------- open parser

\* convert.Uint32Byte(id): the four bytes of id, most significant first.
Uint32Byte(id) ==
    <<id.hi \div 256, id.hi % 256, id.lo \div 256, id.lo % 256>>

\* validAddr taking every first octet from 224 up for multicast.
validAddrFrom224(addr) ==
    IF addr[1] = 127
    THEN FALSE
    ELSE IF addr[1] >= 224
    THEN FALSE
    ELSE IF addr[1] = 0
    THEN FALSE
    ELSE TRUE

\* isValidIdentifier on the address bytes.
validAddr(addr) ==
    IF addr[1] = 127                      \* addr.IsLoopback()
    THEN FALSE
    ELSE IF addr[1] \div 16 = 14          \* addr.IsMulticast()
    THEN FALSE
    ELSE IF addr[1] = 0
    THEN FALSE
    ELSE IF addr[1] = 255 /\ addr[2] = 255 /\ addr[3] = 255 /\ addr[4] = 255
    THEN FALSE
    ELSE TRUE

\* func isValidIdentifier(id uint32) bool
isValidIdentifier(id) == validAddr(Uint32Byte(id))

BGPOpen(vals) ==
    [Version |-> vals[1], AS |-> vals[2], HoldTime |-> vals[3],
     BGPIdentifier |-> vals[4], OptParmLen |-> vals[5]]

\* func validateOpen(msg *BGPOpen) error
validateOpen(msg) ==
    IF msg.Version # BGP4Version
    THEN BGPError(OpenMessageError, UnsupportedVersionNumber)
    ELSE IF ~isValidIdentifier(msg.BGPIdentifier)
    THEN BGPError(OpenMessageError, BadBGPIdentifier)
    ELSE NoErr

\* _decodeOpenMsg after validateOpen returned err.
openValidated(msg, err, rest) ==
    IF err # NoErr
    THEN [msg |-> NilPtr, err |-> err, rest |-> rest]
    ELSE [msg |-> msg, err |-> NoErr, rest |-> rest]

\* _decodeOpenMsg after decode returned f.
openFields(f) ==
    IF f.err # NoErr
    THEN [msg |-> BGPOpen(f.vals), err |-> f.err, rest |-> f.rest]
    ELSE openValidated(BGPOpen(f.vals), validateOpen(BGPOpen(f.vals)), f.rest)

\* func _decodeOpenMsg(buf *bytes.Buffer) (interface{}, error)
\* msg is the interface value returned: a *BGPOpen, or the nil interface.
_decodeOpenMsg(buf) == openFields(decode(buf, <<1, 2, 2, 4, 1>>))

\* return msg.(*BGPOpen), err: the assertion panics on the nil interface, and
\* nothing is returned; err then is the error _decodeOpenMsg had returned.
openAssert(r) ==
    IF r.msg = NilPtr
    THEN [panic |-> TRUE, msg |-> NilPtr, err |-> r.err, rest |-> r.rest]
    ELSE [panic |-> FALSE, msg |-> r.msg, err |-> r.err, rest |-> r.rest]

\* func decodeOpenMsg(buf *bytes.Buffer) (*BGPOpen, error)
decodeOpenMsg(buf) == openAssert(_decodeOpenMsg(buf))

\* ------------------------------------------------------ notification parser

BGPNotification(vals) == [ErrorCode |-> vals[1], ErrorSubcode |-> vals[2]]

\* func invalidErrCode(n *BGPNotification) (*BGPNotification, error)
invalidErrCode(n) == [msg |-> n, err |-> Errorf("Invalid error sub code")]

\* notificationChecks without the two deprecated subcodes singled out.
notificationChecksDeprecatedToo(msg) ==
    IF msg.ErrorCode > Cease
    THEN [msg |-> msg, err |-> Errorf("Invalid error code")]
    ELSE IF msg.ErrorCode = MessageHeaderError
    THEN IF msg.ErrorSubcode > BadMessageType \/ msg.ErrorSubcode = 0
         THEN invalidErrCode(msg)
         ELSE [msg |-> msg, err |-> NoErr]
    ELSE IF msg.ErrorCode = OpenMessageError
    THEN IF msg.ErrorSubcode > UnacceptableHoldTime \/ msg.ErrorSubcode = 0
         THEN invalidErrCode(msg)
         ELSE [msg |-> msg, err |-> NoErr]
    ELSE IF msg.ErrorCode = UpdateMessageError
    THEN IF msg.ErrorSubcode > MalformedASPath \/ msg.ErrorSubcode = 0
         THEN invalidErrCode(msg)
         ELSE [msg |-> msg, err |-> NoErr]
    ELSE IF msg.ErrorCode \in {HoldTimeExpired, FiniteStateMachineError, Cease}
    THEN IF msg.ErrorSubcode # 0
         THEN invalidErrCode(msg)
         ELSE [msg |-> msg, err |-> NoErr]
    ELSE invalidErrCode(msg)

\* The checks of decodeNotificationMsg on the code and subcode it read.
notificationChecks(msg) ==
    IF msg.ErrorCode > Cease
    THEN [msg |-> msg, err |-> Errorf("Invalid error code")]
    ELSE IF msg.ErrorCode = MessageHeaderError
    THEN IF msg.ErrorSubcode > BadMessageType \/ msg.ErrorSubcode = 0
         THEN invalidErrCode(msg)
         ELSE [msg |-> msg, err |-> NoErr]
    ELSE IF msg.ErrorCode = OpenMessageError
    THEN IF \/ msg.ErrorSubcode > UnacceptableHoldTime
            \/ msg.ErrorSubcode = 0
            \/ msg.ErrorSubcode = DeprecatedOpenMsgError5
         THEN invalidErrCode(msg)
         ELSE [msg |-> msg, err |-> NoErr]
    ELSE IF msg.ErrorCode = UpdateMessageError
    THEN IF \/ msg.ErrorSubcode > MalformedASPath
            \/ msg.ErrorSubcode = 0
            \/ msg.ErrorSubcode = DeprecatedUpdateMsgError7
         THEN invalidErrCode(msg)
         ELSE [msg |-> msg, err |-> NoErr]
    ELSE IF msg.ErrorCode = HoldTimeExpired
    THEN IF msg.ErrorSubcode # 0
         THEN invalidErrCode(msg)
         ELSE [msg |-> msg, err |-> NoErr]
    ELSE IF msg.ErrorCode = FiniteStateMachineError
    THEN IF msg.ErrorSubcode # 0
         THEN invalidErrCode(msg)
         ELSE [msg |-> msg, err |-> NoErr]
    ELSE IF msg.ErrorCode = Cease
    THEN IF msg.ErrorSubcode # 0
         THEN invalidErrCode(msg)
         ELSE [msg |-> msg, err |-> NoErr]
    ELSE invalidErrCode(msg)

\* decodeNotificationMsg after decode returned f.
notificationFields(f) ==
    IF f.err # NoErr
    THEN [panic |-> FALSE, msg |-> BGPNotification(f.vals), err |-> f.err,
          rest |-> f.rest]
    ELSE notificationChecks(BGPNotification(f.vals))
             @@ [panic |-> FALSE, rest |-> f.rest]

\* func decodeNotificationMsg(buf *bytes.Buffer) (*BGPNotification, error)
decodeNotificationMsg(buf) == notificationFields(decode(buf, <<1, 1>>))

\* ------------------------------------------------------------ update parser

\* Arithmetic of uint16.
Uint16(x) == x % 65536

\* func isOptional(x uint8) bool        (x&128 == 128)
isOptional(x) == (x \div 128) % 2 = 1

\* func isTransitive(x uint8) bool      (x&64 == 64)
isTransitive(x) == (x \div 64) % 2 = 1

\* func isPartial(x uint8) bool         (x&32 == 32)
isPartial(x) == (x \div 32) % 2 = 1

\* func isExtendedLength(x uint8) bool  (x&16 == 16)
isExtendedLength(x) == (x \div 16) % 2 = 1

\* decodePathAttrFlags after decode returned f.
pathAttrFlags(f) ==
    IF f.err # NoErr
    THEN [err |-> f.err, rest |-> f.rest,
          pa |-> [Optional |-> FALSE, Transitive |-> FALSE, Partial |-> FALSE,
                  ExtendedLength |-> FALSE]]
    ELSE [err |-> NoErr, rest |-> f.rest,
          pa |-> [Optional |-> isOptional(f.vals[1]),
                  Transitive |-> isTransitive(f.vals[1]),
                  Partial |-> isPartial(f.vals[1]),
                  ExtendedLength |-> isExtendedLength(f.vals[1])]]

\* func decodePathAttrFlags(buf *bytes.Buffer, pa *PathAttribute) error
decodePathAttrFlags(buf) == pathAttrFlags(decode(buf, <<1>>))

\* n one-byte fields.
Bytes(n) == [i \in 1..n |-> 1]

\* The NLRI parser: within a budget of bytes, repeatedly a length in bits (one
\* byte) and the ceil(bits/8) bytes of the prefix; a prefix that runs over the
\* budget, or over the end of the buffer, is malformed.
RECURSIVE decodeNLRIsFrom(_, _, _)
nlriPrefix(a, bits, budget, nlris) ==
    IF a.err # NoErr
    THEN [err |-> Errorf("Unable to decode NLRI"), nlris |-> <<>>, rest |-> a.rest]
    ELSE decodeNLRIsFrom(a.rest, budget - 1 - Len(a.vals),
                         Append(nlris, [Pfxlen |-> bits, IP |-> a.vals]))

nlriLength(b, budget, nlris) ==
    IF b.err # NoErr
    THEN [err |-> Errorf("Unable to decode NLRI"), nlris |-> <<>>, rest |-> b.rest]
    ELSE IF 1 + (b.vals[1] + 7) \div 8 > budget
    THEN [err |-> Errorf("Unable to decode NLRI"), nlris |-> <<>>, rest |-> b.rest]
    ELSE nlriPrefix(decode(b.rest, Bytes((b.vals[1] + 7) \div 8)), b.vals[1],
                    budget, nlris)

decodeNLRIsFrom(buf, budget, nlris) ==
    IF budget <= 0
    THEN [err |-> NoErr, nlris |-> nlris, rest |-> buf]
    ELSE nlriLength(decode(buf, <<1>>), budget, nlris)

decodeNLRIs(buf, length) == decodeNLRIsFrom(buf, length, <<>>)

\* The path attribute parser: within a budget of bytes, repeatedly the flags,
\* the type code, the length (two bytes when ExtendedLength, else one) and
\* that many bytes of value, kept as they are.
RECURSIVE decodePathAttrsFrom(_, _, _)
pathAttrValue(v, pa, tc, w, budget, attrs) ==
    IF v.err # NoErr
    THEN [err |-> v.err, attrs |-> <<>>, rest |-> v.rest]
    ELSE decodePathAttrsFrom(v.rest, budget - 2 - w - Len(v.vals),
             Append(attrs, [Flags |-> pa, TypeCode |-> tc, Length |-> Len(v.vals),
                            Value |-> v.vals]))

pathAttrLength(ln, pa, tc, w, budget, attrs) ==
    IF ln.err # NoErr
    THEN [err |-> ln.err, attrs |-> <<>>, rest |-> ln.rest]
    ELSE IF 2 + w + ln.vals[1] > budget
    THEN [err |-> Errorf("Unable to decode path attribute"), attrs |-> <<>>,
          rest |-> ln.rest]
    ELSE pathAttrValue(decode(ln.rest, Bytes(ln.vals[1])), pa, tc, w, budget, attrs)

pathAttrTypeCode(tc, pa, w, budget, attrs) ==
    IF tc.err # NoErr
    THEN [err |-> tc.err, attrs |-> <<>>, rest |-> tc.rest]
    ELSE pathAttrLength(decode(tc.rest, <<w>>), pa, tc.vals[1], w, budget, attrs)

pathAttr(fl, budget, attrs) ==
    IF fl.err # NoErr
    THEN [err |-> fl.err, attrs |-> <<>>, rest |-> fl.rest]
    ELSE pathAttrTypeCode(decode(fl.rest, <<1>>), fl.pa,
                          IF fl.pa.ExtendedLength THEN 2 ELSE 1, budget, attrs)

decodePathAttrsFrom(buf, budget, attrs) ==
    IF budget <= 0
    THEN [err |-> NoErr, attrs |-> attrs, rest |-> buf]
    ELSE pathAttr(decodePathAttrFlags(buf), budget, attrs)

decodePathAttrs(buf, tpal) == decodePathAttrsFrom(buf, tpal, <<>>)

\* The nlriLen of a decodeUpdateMsg that did not get to call the NLRI parser
\* for the message's NLRI.
NotCalled == 0 - 1

BGPUpdate(wrl, wr, tpal, pa, nlri) ==
    [WithdrawnRoutesLen |-> wrl, WithdrawnRoutes |-> wr, TotalPathAttrLen |-> tpal,
     PathAttributes |-> pa, NLRI |-> nlri]

\* What decodeUpdateMsg returns; nlriLen is the length it called the NLRI
\* parser with for msg.NLRI, NotCalled when it did not call it.
updateReturn(msg, err, rest, nlriLen) ==
    [panic |-> FALSE, msg |-> msg, err |-> err, rest |-> rest, nlriLen |-> nlriLen]

\* decodeUpdateMsg after decodeNLRIs(buf, nlriLen) returned nl.
updateNLRIs(wrl, wr, tpal, attrs, nlriLen, nl) ==
    IF nl.err # NoErr
    THEN updateReturn(BGPUpdate(wrl, wr, tpal, attrs, <<>>), nl.err, nl.rest, nlriLen)
    ELSE updateReturn(BGPUpdate(wrl, wr, tpal, attrs, nl.nlris), NoErr, nl.rest,
                      nlriLen)

\* decodeUpdateMsg from the computation of nlriLen on.
updateNlriLen(wrl, wr, tpal, attrs, rest, nlriLen) ==
    IF nlriLen > 0
    THEN updateNLRIs(wrl, wr, tpal, attrs, nlriLen, decodeNLRIs(rest, nlriLen))
    ELSE updateReturn(BGPUpdate(wrl, wr, tpal, attrs, <<>>), NoErr, rest, NotCalled)

\* nlriLen := uint16(l) - 4 - uint16(msg.TotalPathAttrLen) - uint16(msg.WithdrawnRoutesLen)
nlriLenOf(l, tpal, wrl) == Uint16(Uint16(Uint16(l - 4) - tpal) - wrl)

\* decodeUpdateMsg after decodePathAttrs returned pa.
updatePathAttrs(wrl, wr, tpal, pa, l) ==
    IF pa.err # NoErr
    THEN updateReturn(BGPUpdate(wrl, wr, tpal, <<>>, <<>>), pa.err, pa.rest, NotCalled)
    ELSE updateNlriLen(wrl, wr, tpal, pa.attrs, pa.rest, nlriLenOf(l, tpal, wrl))

\* decodeUpdateMsg after decode returned b for TotalPathAttrLen.
updateTotalPathAttrLen(wrl, wr, b, l) ==
    IF b.err # NoErr
    THEN updateReturn(BGPUpdate(wrl, wr, b.vals[1], <<>>, <<>>), b.err, b.rest,
                      NotCalled)
    ELSE updatePathAttrs(wrl, wr, b.vals[1], decodePathAttrs(b.rest, b.vals[1]), l)

\* decodeUpdateMsg after decodeNLRIs returned w for the withdrawn routes.
updateWithdrawnRoutes(wrl, w, l) ==
    IF w.err # NoErr
    THEN updateReturn(BGPUpdate(wrl, <<>>, 0, <<>>, <<>>), w.err, w.rest, NotCalled)
    ELSE updateTotalPathAttrLen(wrl, w.nlris, decode(w.rest, <<2>>), l)

\* decodeUpdateMsg after decode returned a for WithdrawnRoutesLen.
updateWithdrawnRoutesLen(a, l) ==
    IF a.err # NoErr
    THEN updateReturn(BGPUpdate(a.vals[1], <<>>, 0, <<>>, <<>>), a.err, a.rest,
                      NotCalled)
    ELSE updateWithdrawnRoutes(a.vals[1], decodeNLRIs(a.rest, a.vals[1]), l)

\* func decodeUpdateMsg(buf *bytes.Buffer, l uint16) (*BGPUpdate, error)
decodeUpdateMsg(buf, l) == updateWithdrawnRoutesLen(decode(buf, <<2>>), l)

\* -------------------------------------------------------------- dispatching

\* func decodeMsgBody(buf *bytes.Buffer, msgType uint8, l uint16) (interface{}, error)
decodeMsgBody(buf, msgType, l) ==
    IF msgType = OpenMsg
    THEN decodeOpenMsg(buf) @@ [nlriLen |-> NotCalled]
    ELSE IF msgType = UpdateMsg
    THEN decodeUpdateMsg(buf, l)
    ELSE IF msgType = KeepaliveMsg
    THEN [panic |-> FALSE, msg |-> NilPtr, err |-> NoErr, rest |-> buf,
          nlriLen |-> NotCalled]
    ELSE IF msgType = NotificationMsg
    THEN decodeNotificationMsg(buf) @@ [nlriLen |-> NotCalled]
    ELSE [panic |-> FALSE, msg |-> NilPtr, err |-> Errorf("Unknown message type"),
          rest |-> buf, nlriLen |-> NotCalled]

\* What Decode has of a body when decodeHeader failed: none was decoded.
NoBody ==
    [panic |-> FALSE, msg |-> NilPtr, err |-> NoErr, rest |-> <<>>,
     nlriLen |-> NotCalled]

\* Decode after decodeMsgBody returned b (h is what decodeHeader returned).
decodeBody(h, b) ==
    IF b.panic
    THEN [panic |-> TRUE, msg |-> NilPtr, err |-> NoErr, rest |-> b.rest,
          h |-> h, b |-> b]
    ELSE IF b.err # NoErr
    THEN [panic |-> FALSE, msg |-> NilPtr, err |-> Errorf("Failed to decode message"),
          rest |-> b.rest, h |-> h, b |-> b]
    ELSE [panic |-> FALSE, msg |-> [Header |-> h.hdr, Body |-> b.msg], err |-> NoErr,
          rest |-> b.rest, h |-> h, b |-> b]

\* Decode after decodeHeader returned h.
decodeHdr(h) ==
    IF h.err # NoErr
    THEN [panic |-> FALSE, msg |-> NilPtr, err |-> Errorf("Failed to decode header"),
          rest |-> h.rest, h |-> h, b |-> NoBody]
    ELSE decodeBody(h, decodeMsgBody(h.rest, h.hdr.Type, Uint16(h.hdr.Length - MinLen)))

\* func Decode(buf *bytes.Buffer) (*BGPMessage, error)
\* h and b of the result are what decodeHeader and decodeMsgBody returned.
Decode(buffer) == decodeHdr(decodeHeader(buffer))

\* ================================================================== state

VARIABLES
    paths,        \* Route.paths
    activePaths,  \* Route.activePaths
    final,        \* what the last Remove returned (FALSE after any other call)
    op,           \* the last call made on the route
    buf,          \* the bytes left in the caller's buffer
    input,        \* the bytes that were in the buffer when Decode was last called
    ret,          \* what the last Decode returned, with what decodeHeader and
                  \* decodeMsgBody returned to it
    calls         \* the number of Decode calls made on the buffer

routeVars == <<paths, activePaths, final, op>>
decoderVars == <<buf, input, ret, calls>>
vars == <<paths, activePaths, final, op, buf, input, ret, calls>>

\* ------------------------------------------------------------ route entry

\* func NewRoute(pfx *net.Prefix, paths []*Path) *Route
NewRoute(ps) ==
    /\ paths = ps
    /\ activePaths = <<>>
    /\ final = FALSE
    /\ op = "NewRoute"

\* func (r *Route) AddPath(p *Path)
AddPath(p) ==
    /\ Len(paths) < MaxPaths
    /\ paths' = Append(paths, p)
    /\ activePaths' = bestPaths(paths')
    /\ final' = FALSE
    /\ op' = "AddPath"
    /\ UNCHANGED decoderVars

\* func (r *Route) AddPaths(paths []*Path)
AddPaths(ps) ==
    /\ Len(paths) + Len(ps) <= MaxPaths
    /\ paths' = paths \o ps
    /\ activePaths' = bestPaths(paths')
    /\ final' = FALSE
    /\ op' = "AddPaths"
    /\ UNCHANGED decoderVars

\* func (r *Route) Remove(rm *Route) (final bool), rm being another route
\* whose paths are rmPaths.
Remove(rmPaths) ==
    /\ paths' = RemoveAll(paths, rmPaths)
    /\ final' = (Len(paths') = 0)
    /\ op' = "Remove"
    /\ UNCHANGED <<activePaths, decoderVars>>

\* --------------------------------------------------------------- decoder

\* A 16-byte marker, all 0xFF but for byte k, which is v (k = 0: none).
Marker(k, v) == [i \in 1..MarkerLen |-> IF i = k THEN v ELSE 255]

\* The two bytes of a 16-bit value, most significant first.
U16(x) == <<x \div 256, x % 256>>

\* A whole message: header and body.
Message(marker, length, type, body) == marker \o U16(length) \o <<type>> \o body

GoodMarker == Marker(0, 255)

\* Headers of every kind, with no body behind them.
HeaderInputs ==
    {Message(Marker(k, v), length, type, <<>>) :
        k \in {0, 1, 8, 16}, v \in {0, 254},
        length \in {0, 18, 19, 20, 4096, 4097, 65535},
        type \in {0, 1, 2, 3, 4, 5, 255}}

\* Open bodies: version, AS, hold time, identifier, optional parameters.
OpenBodies ==
    {<<version>> \o U16(65001) \o U16(180) \o id \o opt :
        version \in {0, 3, 4, 5, 255},
        id \in {<<1, 2, 3, 4>>, <<127, 0, 0, 1>>, <<224, 0, 0, 1>>,
                <<239, 255, 255, 255>>, <<0, 1, 2, 3>>, <<255, 255, 255, 255>>,
                <<223, 255, 255, 255>>, <<128, 0, 0, 1>>, <<240, 0, 0, 1>>,
                <<0, 0, 0, 0>>, <<1, 0, 0, 0>>, <<126, 255, 255, 255>>,
                <<127, 255, 255, 255>>, <<10, 0, 0, 127>>, <<10, 224, 0, 0>>,
                <<10, 0, 0, 0>>, <<255, 255, 255, 254>>, <<255, 0, 0, 0>>},
        opt \in {<<0>>, <<2, 2, 0>>}}

OpenInputs == {Message(GoodMarker, MinLen + Len(b), OpenMsg, b) : b \in OpenBodies}

\* Update bodies: withdrawn routes, path attributes, NLRI.
UpdateBodies ==
    {<<0, 0, 0, 0>>,
     <<0, 0, 0, 0, 24, 10, 0, 1>>,
     <<0, 4, 24, 10, 0, 1, 0, 0>>,
     <<0, 0, 0, 4, 64, 1, 1, 0, 8, 10>>,
     <<0, 0, 0, 5, 80, 2, 0, 1, 9>>,
     <<0, 4, 24, 10, 0, 1, 0, 4, 64, 1, 1, 0, 16, 172, 16>>}

\* Updates whose header declares the body's length, less, or more.
UpdateInputs ==
    {Message(GoodMarker, MinLen + l, UpdateMsg, b) :
        l \in 0..16, b \in UpdateBodies}

\* Notification bodies: error code, error subcode, data.
NotificationInputs ==
    {Message(GoodMarker, MinLen + 2 + Len(data), NotificationMsg, <<code, sub>> \o data) :
        code \in 0..7, sub \in 0..12, data \in {<<>>, <<7>>}}

Keepalive == Message(GoodMarker, MinLen, KeepaliveMsg, <<>>)

\* Two messages in one buffer.
StreamInputs ==
    {Keepalive \o m :
        m \in {Keepalive,
               Message(GoodMarker, MinLen + 10, OpenMsg,
                       <<4>> \o U16(65001) \o U16(180) \o <<1, 2, 3, 4, 0>>),
               Message(GoodMarker, MinLen + 2, NotificationMsg, <<6, 0>>),
               Message(GoodMarker, MinLen + 4, UpdateMsg, <<0, 0, 0, 0>>)}}
        \cup {m \o Keepalive :
                 m \in {Message(GoodMarker, MinLen + 10, OpenMsg,
                                <<4>> \o U16(65001) \o U16(180) \o <<1, 2, 3, 4, 0>>),
                        Message(GoodMarker, MinLen + 13, OpenMsg,
                                <<4>> \o U16(65001) \o U16(180) \o <<1, 2, 3, 4, 2, 2, 0>>),
                        Message(GoodMarker, MinLen + 2, NotificationMsg, <<6, 0>>),
                        Message(GoodMarker, MinLen + 3, NotificationMsg, <<6, 0, 7>>),
                        Message(GoodMarker, MinLen + 8, UpdateMsg,
                                <<0, 0, 0, 0, 24, 10, 0, 1>>)}}

\* Messages cut short at every length.
TruncatedInputs ==
    UNION {{SubSeq(m, 1, n) : n \in 0..(Len(m) - 1)} :
        m \in {Keepalive,
               Message(Marker(3, 0), MinLen, KeepaliveMsg, <<>>),
               Message(GoodMarker, MinLen + 10, OpenMsg,
                       <<4>> \o U16(65001) \o U16(180) \o <<1, 2, 3, 4, 0>>),
               Message(GoodMarker, MinLen + 10, OpenMsg,
                       <<3>> \o U16(65001) \o U16(180) \o <<1, 2, 3, 4, 0>>),
               Message(GoodMarker, MinLen + 15, UpdateMsg,
                       <<0, 4, 24, 10, 0, 1, 0, 4, 64, 1, 1, 0, 16, 172, 16>>),
               Message(GoodMarker, MinLen + 2, NotificationMsg, <<6, 0>>)}}

Inputs ==
    HeaderInputs \cup OpenInputs \cup UpdateInputs \cup NotificationInputs
        \cup StreamInputs \cup TruncatedInputs

\* Before the first call.
NotCalledYet ==
    [panic |-> FALSE, msg |-> NilPtr, err |-> NoErr, rest |-> <<>>,
     h |-> [hdr |-> NilPtr, err |-> NoErr, rest |-> <<>>], b |-> NoBody]

\* A caller calls Decode on its buffer: first on the buffer as received, then
\* again on what a successful Decode left in it.
DecodeCall ==
    /\ calls < MaxCalls
    /\ calls > 0 => (~ret.panic /\ ret.err = NoErr)
    /\ input' = buf
    /\ ret' = Decode(buf)
    /\ buf' = ret'.rest
    /\ calls' = calls + 1
    /\ UNCHANGED routeVars

\* ---------------------------------------------------------- specifications

RouteIdle ==
    /\ paths = <<>>
    /\ activePaths = <<>>
    /\ final = FALSE
    /\ op = "NewRoute"

DecoderIdle ==
    /\ buf = <<>>
    /\ input = <<>>
    /\ ret = NotCalledYet
    /\ calls = 0

RouteInit ==
    /\ \E ps \in PathLists : NewRoute(ps)
    /\ DecoderIdle

RouteNext ==
    \/ \E p \in Paths : AddPath(p)
    \/ \E ps \in PathLists : AddPaths(ps)
    \/ \E rm \in PathLists : Remove(rm)

\* The route entry under every sequence of calls.
Spec == RouteInit /\ [][RouteNext]_vars

DecodeInit ==
    /\ buf \in Inputs
    /\ input = <<>>
    /\ ret = NotCalledYet
    /\ calls = 0
    /\ RouteIdle

DecodeNext == DecodeCall

\* The decoder on every input buffer.
DecodeSpec == DecodeInit /\ [][DecodeNext]_vars

\* ================================================================ claims

\* ------------------------------------------------- route entry, under Spec

\* C1: after every mutation activePaths is the result of the best-path
\* selection on the route's current paths.  Stated step by step: a call made
\* on a route whose activePaths is the selection on its paths leaves a route
\* of which that is true again.
C1_ActiveIsSelection ==
    [][(activePaths = bestPaths(paths)) => (activePaths' = bestPaths(paths'))]_vars

\* C4: AddPath of a path that is already among the route's paths, and AddPaths
\* of paths that all are, leave paths as it was.
C4_AddPathDeduplicates ==
    [][/\ \A p \in Paths :
              (AddPath(p) /\ p \in Range(paths)) => paths' = paths
       /\ \A ps \in PathLists :
              (AddPaths(ps) /\ Range(ps) \subseteq Range(paths)) => paths' = paths]_vars

\* C5: every active path is one of the route's paths.
C5_ActiveSubsetOfPaths == Range(activePaths) \subseteq Range(paths)

\* C8: withdrawal is idempotent: after Remove(rm), a second Remove(rm) would
\* leave the same paths and return the same final.
C8_RemoveIdempotent ==
    [][\A rm \in PathLists :
           Remove(rm) =>
               /\ RemoveAll(paths', rm) = paths'
               /\ (Len(RemoveAll(paths', rm)) = 0) = final']_vars

\* C9: removal matches by structural equality: Remove of a path from a route
\* that holds only a path of the same family with another payload leaves
\* paths as it was.
C9_RemoveMatchesStructurally ==
    [][\A p \in Paths, q \in Paths :
           (/\ paths = <<p>>
            /\ q.Type = p.Type
            /\ q # p
            /\ Remove(<<q>>)) => paths' = paths]_vars

\* The types of the paths of a list.
Types(ps) == {ps[i].Type : i \in 1..Len(ps)}

\* C12: protocol priority: when the route holds a Static path, every active
\* path is a Static path, whatever BGP, OSPF and ISIS paths it holds as well.
C12_StaticWins ==
    (StaticPathType \in Types(paths)) => (Types(activePaths) \subseteq {StaticPathType})

\* C12's case: a selection made among Static, BGP and OSPF paths.
C12_Witness ==
    /\ op \in {"AddPath", "AddPaths"}
    /\ {StaticPathType, BGPPathType, OSPFPathType} \subseteq Types(paths)
    /\ paths[1].Type # StaticPathType
    /\ activePaths # <<>>
    /\ Types(activePaths) = {StaticPathType}

\* C13: Remove returns true exactly when the route's paths is empty after the
\* removal, a route with no paths has no active paths, and so a route of which
\* Remove returned true has neither paths nor active paths.
C13_FinalMeansEmpty ==
    /\ op = "Remove" => (final <=> paths = <<>>)
    /\ paths = <<>> => activePaths = <<>>
    /\ final => (paths = <<>> /\ activePaths = <<>>)

\* C14: add and remove are inverse: AddPath(p) followed by Remove of a route
\* holding only p gives a route with the paths and, as a set, the active paths
\* it had before the two calls.  Stated on the AddPath step: Remove goes on to
\* set paths to RemoveAll(paths', <<p>>) and leaves activePaths as AddPath set
\* it.  The paths are compared as sets, so that their order does not count.
C14_AddRemoveInverse ==
    [][\A p \in Paths :
           AddPath(p) =>
               /\ Range(RemoveAll(paths', <<p>>)) = Range(paths)
               /\ Range(activePaths') = Range(activePaths)]_vars

\* Every ordering of a list of paths.
Orderings(ps) ==
    {[i \in 1..Len(ps) |-> ps[f[i]]] :
        f \in {g \in [1..Len(ps) -> 1..Len(ps)] :
                  \A i \in 1..Len(ps), j \in 1..Len(ps) : g[i] = g[j] => i = j}}

\* The lowest type ordinal among a non-empty list of paths.
MinType(ps) == CHOOSE t \in Types(ps) : \A u \in Types(ps) : t <= u

\* C17: protocol arbitration is order-independent: on every ordering of the
\* route's paths getBestProtocol returns the lowest type ordinal present, and 0
\* when there are none; the selection made on no paths leaves activePaths
\* empty.
C17_ArbitrationOrderIndependent ==
    /\ \A q \in Orderings(paths) :
           getBestProtocol(q) = IF paths = <<>> THEN 0 ELSE MinType(paths)
    /\ (paths = <<>> /\ op = "AddPaths") => activePaths = <<>>
    /\ paths = <<>> => bestPaths(paths) = <<>>

\* C17's case: the lowest type ordinal is neither first nor last among the
\* paths, and the selection just made is of that family.
C17_Witness ==
    /\ op \in {"AddPath", "AddPaths"}
    /\ Len(paths) = 3
    /\ paths[1].Type = ISISPathType
    /\ paths[2].Type = BGPPathType
    /\ paths[3].Type = OSPFPathType
    /\ Types(activePaths) = {BGPPathType}

\* C18: when the route holds paths and none is Static or BGP, so that OSPF or
\* ISIS wins, the active set AddPath and AddPaths compute is a non-empty set of
\* paths of the winning family.
C18_OspfIsisSelected ==
    (/\ op \in {"AddPath", "AddPaths"}
     /\ paths # <<>>
     /\ Types(paths) \subseteq {OSPFPathType, ISISPathType}) =>
        /\ activePaths # <<>>
        /\ Types(activePaths) = {MinType(paths)}

\* --------------------------------------------------- decoder, under DecodeSpec

\* What the bytes of a buffer of at least 19 bytes say.
InMarkerOK(in) == \A i \in 1..16 : in[i] = 255
InLength(in) == in[17] * 256 + in[18]
InType(in) == in[19]

\* The buffer starts with a header that passes every check.
InHeaderOK(in) ==
    /\ Len(in) >= 19
    /\ InMarkerOK(in)
    /\ InLength(in) >= 19
    /\ InLength(in) <= 4096
    /\ InType(in) \in 1..4

\* The buffer holds an Open with all its fixed fields and a version other than 4.
InOpenBadVersion(in) ==
    /\ InHeaderOK(in)
    /\ InType(in) = 1
    /\ Len(in) >= 29
    /\ in[20] # 4

\* C2: an Open whose version is not 4 makes the Open parser return the error
\* OpenMessageError / UnsupportedVersionNumber.
C2_OpenVersionError ==
    (calls > 0 /\ InOpenBadVersion(input)) =>
        /\ ~ret.panic
        /\ ret.b.err = BGPError(OpenMessageError, UnsupportedVersionNumber)

\* C3: an error returned by Decode is a BGPError, and it is the one the header
\* parser or the body parser produced.
C3_DecodeErrorIsBGPError ==
    (calls > 0 /\ ~ret.panic /\ ret.err # NoErr) =>
        /\ ret.err.kind = "BGPError"
        /\ ret.h.err # NoErr => ret.err = ret.h.err
        /\ ret.h.err = NoErr => ret.err = ret.b.err

\* C6: Decode returns, with a message or an error; it never panics.
C6_DecodeNeverPanics == calls > 0 => ~ret.panic

\* The Update parser of the last Decode got as far as computing nlriLen.
UpdateReachedNlriLen ==
    /\ calls > 0
    /\ InHeaderOK(input)
    /\ InType(input) = 2
    /\ ret.b.err = NoErr \/ ret.b.nlriLen # NotCalled

\* body_len - 4 - total_path_attr_len - withdrawn_routes_len, as an integer.
NlriDifference ==
    (InLength(input) - 19) - 4 - ret.b.msg.TotalPathAttrLen
        - ret.b.msg.WithdrawnRoutesLen

\* C7: when body_len - 4 - total_path_attr_len - withdrawn_routes_len is
\* negative the Update parser fails with UpdateMessageError /
\* MalformedAttributeList and parses no NLRI; it parses NLRI only when the
\* difference is positive.
C7_NegativeNlriLenRejected ==
    UpdateReachedNlriLen =>
        /\ NlriDifference < 0 =>
               /\ ret.b.err = BGPError(UpdateMessageError, MalformedAttributeList)
               /\ ret.b.nlriLen = NotCalled
        /\ ret.b.nlriLen # NotCalled => NlriDifference > 0

\* C10: on a complete 19-byte header the header parser checks the marker, then
\* the length, then the type, returns the error of the first check that fails,
\* and returns the header's length and type when none does.
C10_HeaderChecksInOrder ==
    (calls > 0 /\ Len(input) >= 19) =>
        IF ~InMarkerOK(input)
        THEN ret.h.err = [kind |-> "BGPError", ErrorCode |-> 1, ErrorSubCode |-> 1]
        ELSE IF InLength(input) < 19 \/ InLength(input) > 4096
        THEN ret.h.err = [kind |-> "BGPError", ErrorCode |-> 1, ErrorSubCode |-> 2]
        ELSE IF InType(input) = 0 \/ InType(input) > 4
        THEN ret.h.err = [kind |-> "BGPError", ErrorCode |-> 1, ErrorSubCode |-> 3]
        ELSE /\ ret.h.err = NoErr
             /\ ret.h.hdr = [Length |-> InLength(input), Type |-> InType(input)]

\* C10's case: headers that fail two checks at once, and one that passes all.
C10_Witness ==
    /\ calls > 0
    /\ Len(input) >= 19
    /\ \/ /\ ~InMarkerOK(input)
          /\ InLength(input) > 4096
          /\ ret.h.err = BGPError(MessageHeaderError, ConnectionNotSync)
       \/ /\ InMarkerOK(input)
          /\ InLength(input) < 19
          /\ InType(input) > 4
          /\ ret.h.err = BGPError(MessageHeaderError, BadMessageLength)

\* The buffer holds a Notification with its error code and subcode.
InNotification(in) ==
    /\ InHeaderOK(in)
    /\ InType(in) = 3
    /\ Len(in) >= 21

\* The table of the (error code, error subcode) pairs a Notification may carry.
AllowedNotification(code, sub) ==
    \/ code = 1 /\ sub \in 1..BadMessageType
    \/ code = 2 /\ sub \in (1..UnacceptableHoldTime) \ {DeprecatedOpenMsgError5}
    \/ code = 3 /\ sub \in (1..MalformedASPath) \ {DeprecatedUpdateMsgError7}
    \/ code \in {4, 5, 6} /\ sub = 0

\* C11: the Notification parser returns no error exactly when the (error code,
\* error subcode) pair it read is in the table, and it returns the notification
\* it parsed, code and subcode, whether or not it returns an error.
C11_NotificationTable ==
    (calls > 0 /\ InNotification(input)) =>
        /\ ~ret.b.panic
        /\ (ret.b.err = NoErr) <=> AllowedNotification(input[20], input[21])
        /\ ret.b.msg = [ErrorCode |-> input[20], ErrorSubcode |-> input[21]]

\* C11's case: a deprecated subcode refused with the notification returned, and
\* the last subcode of the Update range accepted.
C11_Witness ==
    /\ calls > 0
    /\ InNotification(input)
    /\ \/ /\ input[20] = 2
          /\ input[21] = 5
          /\ ret.b.err # NoErr
          /\ ret.b.msg.ErrorSubcode = 5
       \/ /\ input[20] = 3
          /\ input[21] = 11
          /\ ret.b.err = NoErr

\* The buffer holds an Open with all its fixed fields and version 4.
InOpenVersion4(in) ==
    /\ InHeaderOK(in)
    /\ InType(in) = 1
    /\ Len(in) >= 29
    /\ in[20] = 4

\* The identifier a.b.c.d has first octet 0, or lies in 127.0.0.0/8 or in
\* 224.0.0.0/4, or is 255.255.255.255.
RejectedIdentifier(a, b, c, d) ==
    \/ a = 0
    \/ a = 127
    \/ a \in 224..239
    \/ a = 255 /\ b = 255 /\ c = 255 /\ d = 255

\* C15: the validation of an Open of version 4 rejects its BGP identifier with
\* OpenMessageError / BadBGPIdentifier exactly when the first octet is 0, or
\* the identifier lies in 127.0.0.0/8 or in 224.0.0.0/4, or it is
\* 255.255.255.255; it accepts every other identifier.
C15_IdentifierValidation ==
    (calls > 0 /\ InOpenVersion4(input)) =>
        IF RejectedIdentifier(input[25], input[26], input[27], input[28])
        THEN ret.b.err = [kind |-> "BGPError", ErrorCode |-> 2, ErrorSubCode |-> 3]
        ELSE /\ ret.b.err = NoErr
             /\ ret.b.msg.BGPIdentifier =
                    [hi |-> input[25] * 256 + input[26],
                     lo |-> input[27] * 256 + input[28]]

\* C15's case: the last multicast address refused, and the first address
\* above the multicast range accepted.
C15_Witness ==
    /\ calls > 0
    /\ InOpenVersion4(input)
    /\ \/ /\ input[25] = 239
          /\ ret.b.err = BGPError(OpenMessageError, BadBGPIdentifier)
       \/ /\ input[25] = 240
          /\ ret.b.err = NoErr

\* C16: a successful Decode of a message whose header declares length L, all
\* L bytes of it being in the buffer, consumes exactly L bytes, so that the
\* next Decode starts at the next message.
C16_ConsumesDeclaredLength ==
    (/\ calls > 0
     /\ ~ret.panic
     /\ ret.err = NoErr
     /\ Len(input) >= ret.h.hdr.Length) =>
        Len(input) - Len(buf) = ret.h.hdr.Length

\* The buffer breaks off within the header: it is empty, or holds a part of the
\* marker, or holds a whole marker of 0xFF bytes and less than the three bytes
\* of length and type.
InShortHeader(in) ==
    /\ Len(in) < 19
    /\ Len(in) < 16 \/ \A i \in 1..16 : in[i] = 255

\* C19: on a buffer of fewer than 19 bytes (empty, a partial marker, or a whole
\* all-0xFF marker with length or type bytes missing) the header parser returns
\* the error Cease with subcode 0, not a MessageHeaderError and not a header,
\* and Decode fails.
C19_ShortHeaderIsCease ==
    (calls > 0 /\ InShortHeader(input)) =>
        /\ ret.h.err = [kind |-> "BGPError", ErrorCode |-> 6, ErrorSubCode |-> 0]
        /\ ~ret.panic
        /\ ret.err # NoErr
        /\ ret.msg = NilPtr

\* C19's case: a whole marker followed by the two length bytes and no type.
C19_Witness ==
    /\ calls > 0
    /\ Len(input) = 18
    /\ InShortHeader(input)
    /\ ret.h.err = BGPError(Cease, 0)

====
